---------------------------- MODULE Spec2Model ----------------------------
(***************************************************************************)
(* Model of the request-resolution pipeline of je4/mediaservermain         *)
(* (src/pkg/web/web.go): the two read-through metadata caches built in     *)
(* NewMainController, the action-parameter registry (getParams), the       *)
(* authorization evaluator (checkAccess) and the dispatcher / rendition    *)
(* resolver (action).                                                      *)
(*                                                                         *)
(* Strings that the code composes, splits or trims are sequences of atoms: *)
(* the atom "/" is the separator, every other atom stands for a piece of   *)
(* text without a separator in it.  Concatenation is \o, so formatting and *)
(* trimming are computed, not assumed.                                     *)
(*                                                                         *)
(* A handler is split exactly at the points where the goroutine can be     *)
(* descheduled with shared state released: the remote calls and the lock   *)
(* boundaries inside gcache's Get.                                         *)
(***************************************************************************)
EXTENDS Naturals, Sequences, FiniteSets, TLC

(***************************************************************************)
(* Bounds of the model.                                                    *)
(***************************************************************************)
NumReq == 2          \* request slots that run concurrently in SpecConc
MaxTime == 2         \* the clock runs 0..MaxTime
CacheTimout == 1     \* the configured expiration of both caches, in ticks
ItemCacheSize == 1   \* itemCacheSize handed to gcache.New
CollectionCacheSize == 1

Reqs == 1..NumReq

(***************************************************************************)
(* Strings.                                                                *)
(***************************************************************************)
Slash == "/"
Empty == << >>

RECURSIVE TrimLeft(_)
TrimLeft(s) == IF s # Empty /\ Head(s) = Slash THEN TrimLeft(Tail(s)) ELSE s

RECURSIVE TrimRight(_)
TrimRight(s) ==
    IF s # Empty /\ s[Len(s)] = Slash THEN TrimRight(SubSeq(s, 1, Len(s) - 1)) ELSE s

\* strings.Trim(s, "/")
Trim(s) == TrimRight(TrimLeft(s))

\* strings.Split(s, "/") with the empty pieces left out
RECURSIVE Segments(_)
Segments(s) ==
    IF s = Empty THEN Empty
    ELSE IF Head(s) = Slash THEN Segments(Tail(s))
    ELSE <<Head(s)>> \o Segments(Tail(s))

\* strings.Join(list, "/")
RECURSIVE Join(_)
Join(list) ==
    IF list = Empty THEN Empty
    ELSE IF Len(list) = 1 THEN <<list[1]>>
    ELSE <<list[1], Slash>> \o Join(Tail(list))


(***************************************************************************)
(* Request inputs: the path parameters gin hands to action() and the       *)
(* token query parameter.  gin's catch-all *params keeps its leading "/".  *)
(***************************************************************************)
Collections == {"c1"}
Signatures == {"s1", "s2"}
Actions == {"thumb", "item", "master", "metadata"}
ParamStrs ==
    { Empty,
      <<Slash, "s200">>,
      <<Slash, "s300">>,
      <<Slash, "zz", Slash, "s200", Slash>> }

ItemKey(collection, signature) == <<collection, signature>>
ItemKeys == {ItemKey(c, s) : c \in Collections, s \in Signatures}

(***************************************************************************)
(* What the metadata service and the action service can answer.            *)
(***************************************************************************)
MediaTypes == {"image"}

thumb200 == <<"thumb", Slash, "s200">>
itemPlain == <<"item", Slash>>

ItemVals ==
    { [public |-> TRUE,  publicActions |-> {},                    type |-> "image"],
      [public |-> FALSE, publicActions |-> {},                    type |-> "image"],
      [public |-> FALSE, publicActions |-> {thumb200, itemPlain}, type |-> "image"] }

Storages == {"st1", "st2"}
NoKey == ""
CollVals ==
    { [jwtkey |-> NoKey, storage |-> "st1"],
      [jwtkey |-> "k1",  storage |-> "st1"],
      [jwtkey |-> "k1",  storage |-> "st2"] }

\* the Values of a ParamsParam answer: the allow-listed parameter names of
\* a (type, action) pair, which the action service does not change
ParamsFor(sig) == IF sig[2] = "thumb" THEN <<"size">> ELSE Empty

\* gRPC status codes the downstream calls fail with
FailCodes == {"NotFound", "Unavailable"}

\* the zero values the generated getters give for a nil message
NilItem == [public |-> FALSE, publicActions |-> {}, type |-> ""]
NilColl == [jwtkey |-> NoKey, storage |-> ""]

\* an answer of a remote call: a value, or a gRPC status code
Ok(v) == [ok |-> TRUE, val |-> v, code |-> "OK"]
Fail(nil, code) == [ok |-> FALSE, val |-> nil, code |-> code]

ItemAnswers == {Ok(v) : v \in ItemVals} \cup {Fail(NilItem, c) : c \in FailCodes}
CollAnswers == {Ok(v) : v \in CollVals} \cup {Fail(NilColl, c) : c \in FailCodes}
ParamAnswers(sig) == {Ok(ParamsFor(sig)), Fail(Empty, "Unavailable")}

(***************************************************************************)
(* Errors.  An error value keeps its outermost message, the gRPC status    *)
(* code it carries (directly or wrapped, "None" when it carries none) and  *)
(* whether it is gcache.KeyNotFoundError underneath.                       *)
(***************************************************************************)
NoErr == [msg |-> "nil", code |-> "None", keyNotFound |-> FALSE]
RpcError(code) == [msg |-> "rpc", code |-> code, keyNotFound |-> FALSE]
KeyNotFoundError == [msg |-> "key not found", code |-> "None", keyNotFound |-> TRUE]
NewError(msg) == [msg |-> msg, code |-> "None", keyNotFound |-> FALSE]
\* errors.Wrapf(err, msg): a new message around the same cause
Wrapf(err, msg) == [err EXCEPT !.msg = msg]

\* status.FromError(err): ok and the code of the status the error carries;
\* an error that carries none is reported as (Unknown, not ok).
FromError(err) ==
    [ok |-> err.code # "None", code |-> IF err.code # "None" THEN err.code ELSE "Unknown"]

(***************************************************************************)
(* Parameter canonicalizer (actionCache.ActionParams).  A segment atom     *)
(* stands for name+value text; ParamName gives the parameter name it       *)
(* starts with.  SetString keeps, for every name of the allow-list, the    *)
(* last segment carrying that name and drops every other segment; String   *)
(* renders the kept segments in allow-list order joined by "/".            *)
(***************************************************************************)
ParamName(seg) ==
    CASE seg \in {"s200", "s300"} -> "size"
      [] OTHER -> "unrecognized"

Max(S) == CHOOSE x \in S : \A y \in S : y <= x

LastWith(segs, name) ==
    LET idx == {i \in DOMAIN segs : ParamName(segs[i]) = name}
    IN  IF idx = {} THEN Empty ELSE <<segs[Max(idx)]>>

RECURSIVE KeepAllowed(_, _)
KeepAllowed(segs, allowed) ==
    IF allowed = Empty THEN Empty
    ELSE LastWith(segs, Head(allowed)) \o KeepAllowed(segs, Tail(allowed))

\* ap := ActionParams{}; ap.SetString(paramStr, allowedParams)
SetString(paramStr, allowedParams) == KeepAllowed(Segments(paramStr), allowedParams)

\* ap.String()
String(ap) == Join(ap)

\* var params = actionCache.ActionParams{}
NoParams == Empty

(***************************************************************************)
(* Tokens.  NoToken is the empty query parameter.  A token is what         *)
(* jwt.ParseWithClaims reads from it: the signing algorithm of the header, *)
(* the key it was signed with and the subject claim.                       *)
(***************************************************************************)
NoToken == [alg |-> "", key |-> "", sub |-> Empty]
jwtAlgs == {"HS256"}
TokenAlgs == {"HS256", "none"}
TokenKeys == {"k1", "k2"}

\* fmt.Sprintf("%s/%s/%s/%s", collection, signature, action, paramStr), trimmed
ExpectedSubject(collection, signature, action, paramStr) ==
    Trim(<<collection, Slash, signature, Slash, action, Slash>> \o paramStr)

\* the subject the claim under test names: built from the canonical parameters
CanonicalSubject(collection, signature, action, canon) ==
    <<collection, Slash, signature, Slash, action, Slash>> \o canon

\* the subjects tokens are issued with: for the request thumb /s200 of item
\* s1 as the code composes it, the same with canonical parameters, and for
\* the request item of item s1
Subjects ==
    { ExpectedSubject("c1", "s1", "thumb", <<Slash, "s200">>),
      CanonicalSubject("c1", "s1", "thumb", <<"s200">>),
      ExpectedSubject("c1", "s1", "item", Empty) }

Tokens ==
    {NoToken} \cup
    { [alg |-> "HS256", key |-> "k1", sub |-> s] : s \in Subjects } \cup
    { [alg |-> "HS256", key |-> "k2",
       sub |-> ExpectedSubject("c1", "s1", "thumb", <<Slash, "s200">>)],
      [alg |-> "none", key |-> "k1",
       sub |-> ExpectedSubject("c1", "s1", "thumb", <<Slash, "s200">>)] }

\* jwt.ParseWithClaims with the key function of checkAccess: the key function
\* refuses an algorithm outside jwtAlgs, the parser a signature that does not
\* verify under jwtKey.
ParseWithClaims(token, jwtKey) ==
    IF token.alg \notin jwtAlgs THEN [ok |-> FALSE, sub |-> Empty]
    ELSE IF token.key # jwtKey THEN [ok |-> FALSE, sub |-> Empty]
    ELSE [ok |-> TRUE, sub |-> token.sub]

(***************************************************************************)
(* Rendition paths.  isUrlRegexp is ^[a-z]+:// ; a path is a sequence of   *)
(* characters here, lower-case letters being those of LowerCase.           *)
(***************************************************************************)
LowerCase == {"v", "f"}

\* mutant: the pattern compiled without regard to case
isUrlAnyCase(path) ==
    \E n \in 1..Len(path) :
        /\ \A i \in 1..n : path[i] \notin {":", Slash}
        /\ Len(path) >= n + 3
        /\ path[n + 1] = ":"
        /\ path[n + 2] = Slash
        /\ path[n + 3] = Slash

isUrl(path) ==
    \E n \in 1..Len(path) :
        /\ \A i \in 1..n : path[i] \in LowerCase
        /\ Len(path) >= n + 3
        /\ path[n + 1] = ":"
        /\ path[n + 2] = Slash
        /\ path[n + 3] = Slash

Paths ==
    { <<"v", "f", ":", Slash, Slash, "x">>,     \* vf://x
      <<"V", ":", Slash, Slash, "x">>,          \* V://x   (upper-case scheme)
      <<":", Slash, Slash, "x">>,               \* ://x    (no scheme)
      <<"x", Slash, "v", ":", Slash, Slash>>,   \* x/v://  (not at the start)
      <<"x">> }                                 \* x

FileBases == {<<"b">>}
\* metadata.GetStorage(): nil, or a storage with its filebase
NoStorage == [nil |-> TRUE, filebase |-> Empty]
StorageAt(filebase) == [nil |-> FALSE, filebase |-> filebase]
MimeTypes == {"image/png"}
\* cache.GetMetadata() of a Cache answer: path, mime type and storage
CacheVals ==
    { [path |-> p, mimeType |-> m, storage |-> s] :
        p \in Paths, m \in MimeTypes,
        s \in {NoStorage} \cup {StorageAt(b) : b \in FileBases} }
NilCache == [path |-> Empty, mimeType |-> "", storage |-> NoStorage]

\* GetCache answers a rendition, NotFound or another failure
CacheAnswers ==
    {Ok(v) : v \in CacheVals} \cup {Fail(NilCache, c) : c \in FailCodes}
\* Action answers a rendition, a failure, or neither (nil, nil)
NilAnswer == [ok |-> TRUE, val |-> NilCache, code |-> "nil"]
ActionAnswers ==
    {Ok(v) : v \in CacheVals} \cup {Fail(NilCache, "Unavailable"), NilAnswer}
\* GetItemMetadata answers the stored document, NotFound or another failure
Documents == {"doc", "{}"}
MetadataAnswers ==
    {Ok(d) : d \in Documents} \cup {Fail("", c) : c \in FailCodes}


(***************************************************************************)
(* State.                                                                  *)
(***************************************************************************)
VARIABLES
    now,           \* the clock gcache reads
    caches,        \* itemCache and collectionCache: the LRU list of entries, front first
    loadGroup,     \* per cache, the singleflight calls of gcache: key -> call
    actionParams,  \* the parameter registry: (type, action) -> names
    pc,            \* per request: the line of action()/checkAccess() it waits at
    inp,           \* per request: collection, signature, action, params, token
    lk,            \* per request: its gcache Get in progress
    gp,            \* per request: its getParams in progress
    loc,           \* per request: the local variables of action()/checkAccess()
    resp,          \* per request: the HTTP response written
    log,           \* per request: the calls it has made, in order
    missLoads,     \* per item key: loads begun while lookups that missed were pending
    lastNotFound   \* the latest NotFound answer of GetItem: key and time

vars ==
    <<now, caches, loadGroup, actionParams, pc, inp, lk, gp, loc, resp, log,
      missLoads, lastNotFound>>

CollKey(collection) == <<collection>>
CollKeys == {CollKey(c) : c \in Collections}
CacheNames == {"itemCache", "collectionCache"}
KeysOf(cache) == IF cache = "itemCache" THEN ItemKeys ELSE CollKeys
SizeOf(cache) == IF cache = "itemCache" THEN ItemCacheSize ELSE CollectionCacheSize
NilOf(cache) == IF cache = "itemCache" THEN NilItem ELSE NilColl
AnswersOf(env, cache) == IF cache = "itemCache" THEN env.item ELSE env.coll

(***************************************************************************)
(* gcache: an LRU cache with expiration and a loader                       *)
(* (gcache.New(size).LRU().Expiration(cacheTimout).LoaderFunc(...)).       *)
(* A cache is its evictList: a sequence of entries, most recently used     *)
(* first.                                                                  *)
(***************************************************************************)
IndexOf(list, key) ==
    IF \E i \in DOMAIN list : list[i].key = key
    THEN CHOOSE i \in DOMAIN list : list[i].key = key
    ELSE 0

Without(list, i) == SubSeq(list, 1, i - 1) \o SubSeq(list, i + 1, Len(list))

\* lruItem.IsExpired: expiration.Before(now)
IsExpired(entry, t) == entry.expiration < t

\* LRUCache.getValue finds the key unexpired
Hit(list, key, t) ==
    LET i == IndexOf(list, key) IN i # 0 /\ ~IsExpired(list[i], t)

\* the list after LRUCache.getValue: a hit moves to the front, an expired
\* entry is removed
AfterGet(list, key, t) ==
    LET i == IndexOf(list, key)
    IN  IF i = 0 THEN list
        ELSE IF IsExpired(list[i], t) THEN Without(list, i)
        ELSE <<list[i]>> \o Without(list, i)

\* LRUCache.set: an existing entry is updated and moved to the front; a new
\* one evicts from the back when the list is full; the expiration is reset
Set(list, key, value, size, t) ==
    LET i == IndexOf(list, key)
        entry == [key |-> key, value |-> value, expiration |-> t + CacheTimout]
    IN  IF i # 0 THEN <<entry>> \o Without(list, i)
        ELSE IF Len(list) >= size
             THEN <<entry>> \o SubSeq(list, 1, Len(list) - 1)
             ELSE <<entry>> \o list

\* mutant: a failure other than NotFound is returned as (nil, nil)
LoaderSwallow(cache, answer) ==
    IF answer.ok THEN [val |-> answer.val, err |-> NoErr]
    ELSE IF answer.code = "NotFound"
         THEN [val |-> NilOf(cache), err |-> KeyNotFoundError]
         ELSE [val |-> NilOf(cache), err |-> NoErr]

\* The LoaderFunc of NewMainController: NotFound becomes
\* gcache.KeyNotFoundError, another failure is wrapped, a value is returned.
Loader(cache, answer) ==
    IF answer.ok THEN [val |-> answer.val, err |-> NoErr]
    ELSE IF answer.code = "NotFound"
         THEN [val |-> NilOf(cache), err |-> KeyNotFoundError]
         ELSE [val |-> NilOf(cache),
               err |-> Wrapf(RpcError(answer.code), "cannot get from upstream")]

\* mutant: the callback stores whatever the loader returned, errors too
LoaderStoreAlways(list, key, res, size, t) == Set(list, key, res.val, size, t)

\* the callback of getWithLoader: a loaded value is set, an error is not
LoaderStore(list, key, res, size, t) ==
    IF res.err = NoErr THEN Set(list, key, res.val, size, t) ELSE list

NoCall(cache) == [state |-> "none", val |-> NilOf(cache), err |-> NoErr]
NoLookup ==
    [phase |-> "none", cache |-> "itemCache", key |-> Empty, val |-> NilItem,
     err |-> NoErr, via |-> "none", since |-> 0]
Lookup(cache, key) ==
    [phase |-> "get", cache |-> cache, key |-> key, val |-> NilOf(cache),
     err |-> NoErr, via |-> "none", since |-> 0]
Returned(l, val, err, via) ==
    [l EXCEPT !.phase = "ret", !.val = val, !.err = err, !.via = via]

\* the lookups of an item key that missed and have not returned yet
Pending(lks, key) ==
    {r \in Reqs : /\ lks[r].cache = "itemCache"
                  /\ lks[r].key = key
                  /\ lks[r].phase \in {"do", "wait", "load", "unreg"}}

\* history: count the loads of a key begun while missed lookups are pending
\* (counted up to two: the second one is the one that matters)
CountLoads(begun) ==
    missLoads' =
        [k \in ItemKeys |->
            IF Pending(lk', k) = {} THEN 0
            ELSE IF k \in begun /\ missLoads[k] < 2 THEN missLoads[k] + 1
            ELSE missLoads[k]]

\* GetItemMetadata has not answered
NoMetadata == [ok |-> FALSE, val |-> "", code |-> "none"]
NoGetParams == [phase |-> "none", sig |-> Empty, values |-> Empty, err |-> NoErr]
NoActionParam == [Item |-> NilItem, Action |-> "", Params |-> NoParams, Storage |-> ""]
NoLocals ==
    [item |-> NilItem,            \* action(): item
     accessItem |-> NilItem,      \* checkAccess(): item
     coll |-> NilColl,            \* checkAccess(): coll
     params |-> NoParams,         \* action(): params
     cacheCode |-> "",            \* the status the GetCache call ended with
     resolverColl |-> NilColl,    \* action(): coll
     actionParam |-> NoActionParam,  \* the message sent to Action
     generated |-> NilAnswer,     \* what Action answered
     metadata |-> NoMetadata,     \* what GetItemMetadata answered
     rendition |-> NilCache]      \* action(): cache.GetMetadata()
NoResponse ==
    [status |-> 0, body |-> "none", contentType |-> "", err |-> NoErr, path |-> Empty]
NoInput ==
    [collection |-> "", signature |-> "", action |-> "", paramStr |-> Empty,
     token |-> NoToken, cancelled |-> FALSE]

Init ==
    /\ now = 0
    /\ caches = [c \in CacheNames |-> Empty]
    /\ loadGroup = [c \in CacheNames |-> [k \in KeysOf(c) |-> NoCall(c)]]
    /\ actionParams = [sig \in MediaTypes \X Actions |-> [set |-> FALSE, values |-> Empty]]
    /\ pc = [r \in Reqs |-> "idle"]
    /\ inp = [r \in Reqs |-> NoInput]
    /\ lk = [r \in Reqs |-> NoLookup]
    /\ gp = [r \in Reqs |-> NoGetParams]
    /\ loc = [r \in Reqs |-> NoLocals]
    /\ resp = [r \in Reqs |-> NoResponse]
    /\ log = [r \in Reqs |-> Empty]
    /\ missLoads = [k \in ItemKeys |-> 0]
    /\ lastNotFound = [seen |-> FALSE, key |-> Empty, at |-> 0]

(***************************************************************************)
(* gcache's Get, step by step.                                             *)
(***************************************************************************)
\* LRUCache.Get: c.get(key, false) under the cache's mutex
CacheGet(r) ==
    /\ lk[r].phase = "get"
    /\ LET c == lk[r].cache
           k == lk[r].key
           list == caches[c]
       IN  /\ caches' = [caches EXCEPT ![c] = AfterGet(list, k, now)]
           /\ lk' = [lk EXCEPT ![r] =
                  IF Hit(list, k, now)
                  THEN Returned(@, list[IndexOf(list, k)].value, NoErr, "hit")
                  ELSE [@ EXCEPT !.phase = "do"]]
    /\ CountLoads({})
    /\ UNCHANGED <<now, loadGroup, actionParams, pc, inp, gp, loc, resp, log, lastNotFound>>

\* the event a load writes to the log of the request that runs it
LoadEvent(cache) == IF cache = "itemCache" THEN "GetItem:65" ELSE "GetCollection:85"

\* mutant: a cache built without the loader group, every miss loads
JoinsNever(call) == FALSE

\* singleflight Group.Do: a call registered for the key is joined
Joins(call) == call.state # "none"

\* singleflight Group.Do under the group's mutex: the cache is read again;
\* a call registered for the key is waited for; otherwise a call is
\* registered and the loader runs in this goroutine
GroupDo(r) ==
    /\ lk[r].phase = "do"
    /\ LET c == lk[r].cache
           k == lk[r].key
           list == caches[c]
           call == loadGroup[c][k]
       IN  /\ caches' = [caches EXCEPT ![c] = AfterGet(list, k, now)]
           /\ IF Hit(list, k, now)
              THEN /\ lk' = [lk EXCEPT ![r] =
                         Returned(@, list[IndexOf(list, k)].value, NoErr, "hit")]
                   /\ UNCHANGED <<loadGroup, log>>
                   /\ CountLoads({})
              ELSE IF Joins(call) /\ call.state = "done"
              THEN /\ lk' = [lk EXCEPT ![r] = Returned(@, call.val, call.err, "shared")]
                   /\ UNCHANGED <<loadGroup, log>>
                   /\ CountLoads({})
              ELSE IF Joins(call) /\ call.state = "running"
              THEN /\ lk' = [lk EXCEPT ![r].phase = "wait"]
                   /\ UNCHANGED <<loadGroup, log>>
                   /\ CountLoads({})
              ELSE /\ lk' = [lk EXCEPT ![r].phase = "load", ![r].since = now]
                   /\ loadGroup' = [loadGroup EXCEPT ![c][k].state = "running"]
                   /\ log' = [log EXCEPT ![r] = Append(@, LoadEvent(c))]
                   /\ CountLoads(IF c = "itemCache" THEN {k} ELSE {})
    /\ UNCHANGED <<now, actionParams, pc, inp, gp, loc, resp, lastNotFound>>

\* the lookups that wait for the call of (cache, key)
Waiters(cache, key) ==
    {w \in Reqs : lk[w].phase = "wait" /\ lk[w].cache = cache /\ lk[w].key = key}

\* Group.call: the loader returns, its callback stores a value, the result
\* is published (wg.Done) to every goroutine waiting for the call
LoaderReturn(r, env) ==
    /\ lk[r].phase = "load"
    /\ LET c == lk[r].cache
           k == lk[r].key
       IN  \E answer \in AnswersOf(env, c) :
             LET res == Loader(c, answer)
             IN  /\ caches' = [caches EXCEPT ![c] =
                        LoaderStore(@, k, res, SizeOf(c), now)]
                 /\ loadGroup' = [loadGroup EXCEPT ![c][k] =
                        [state |-> "done", val |-> res.val, err |-> res.err]]
                 /\ lk' = [w \in Reqs |->
                        IF w = r
                        THEN [lk[w] EXCEPT !.phase = "unreg", !.val = res.val,
                                           !.err = res.err, !.via = "loaded"]
                        ELSE IF w \in Waiters(c, k)
                        THEN Returned(lk[w], res.val, res.err, "shared")
                        ELSE lk[w]]
                 /\ lastNotFound' =
                        IF c = "itemCache" /\ ~answer.ok /\ answer.code = "NotFound"
                        THEN [seen |-> TRUE, key |-> k, at |-> now]
                        ELSE lastNotFound
    /\ CountLoads({})
    /\ UNCHANGED <<now, actionParams, pc, inp, gp, loc, resp, log>>

\* Group.call, after wg.Done: delete(g.m, key) under the group's mutex
GroupForget(r) ==
    /\ lk[r].phase = "unreg"
    /\ loadGroup' = [loadGroup EXCEPT ![lk[r].cache][lk[r].key] = NoCall(lk[r].cache)]
    /\ lk' = [lk EXCEPT ![r].phase = "ret"]
    /\ CountLoads({})
    /\ UNCHANGED <<now, caches, actionParams, pc, inp, gp, loc, resp, log, lastNotFound>>

\* time passes
Tick ==
    /\ now < MaxTime
    /\ now' = now + 1
    /\ UNCHANGED <<caches, loadGroup, actionParams, pc, inp, lk, gp, loc, resp, log,
                   missLoads, lastNotFound>>


(***************************************************************************)
(* getParams: the registry is read; on a miss the action service is asked  *)
(* and the answer is written to the registry.                              *)
(***************************************************************************)
ParamSig(mediaType, action) == <<mediaType, action>>
GetParamsOf(mediaType, action) ==
    [phase |-> "read", sig |-> ParamSig(mediaType, action), values |-> Empty, err |-> NoErr]

\* the other requests that are inside the map assignment of line 132
MapWriters(r) == {w \in Reqs \ {r} : gp[w].phase = "storing"}

\* the Go runtime detects the concurrent map access ("fatal error:
\* concurrent map read and map write", "concurrent map writes"): the
\* process ends, and every request with it
Fatal ==
    /\ pc' = [q \in Reqs |-> "fatal"]
    /\ lk' = [q \in Reqs |-> NoLookup]
    /\ gp' = [q \in Reqs |-> NoGetParams]
    /\ UNCHANGED <<now, caches, loadGroup, actionParams, inp, loc, resp, log,
                   missLoads, lastNotFound>>

\* mutant: getParams without the map lookup of lines 121-123
GetParamsReadNever(r) ==
    /\ gp[r].phase = "read"
    /\ gp' = [gp EXCEPT ![r].phase = "call"]
    /\ log' = [log EXCEPT ![r] = Append(@, "GetParams:124")]
    /\ UNCHANGED <<now, caches, loadGroup, actionParams, pc, inp, lk, loc, resp,
                   missLoads, lastNotFound>>

\* lines 120-127: the map read; a miss sends GetParams.  A read while
\* another request is inside the assignment is a data race: it sees the map
\* as it was, or the entry being written, or the runtime ends the process.
GetParamsRead(r) ==
    /\ gp[r].phase = "read"
    /\ \/ /\ IF actionParams[gp[r].sig].set
             THEN /\ gp' = [gp EXCEPT ![r].phase = "ret",
                                      ![r].values = actionParams[gp[r].sig].values]
                  /\ UNCHANGED log
             ELSE /\ gp' = [gp EXCEPT ![r].phase = "call"]
                  /\ log' = [log EXCEPT ![r] = Append(@, "GetParams:124")]
          /\ UNCHANGED <<now, caches, loadGroup, actionParams, pc, inp, lk, loc, resp,
                         missLoads, lastNotFound>>
       \/ /\ \E w \in MapWriters(r) :
                /\ gp[w].sig = gp[r].sig
                /\ gp' = [gp EXCEPT ![r].phase = "ret", ![r].values = gp[w].values]
          /\ UNCHANGED <<now, caches, loadGroup, actionParams, pc, inp, lk, loc, resp,
                         log, missLoads, lastNotFound>>
       \/ /\ MapWriters(r) # {}
          /\ Fatal

\* lines 128-131: the answer; a failure is wrapped and returned, values go
\* on to the map
GetParamsReturn(r, env) ==
    /\ gp[r].phase = "call"
    /\ \E answer \in env.params[gp[r].sig] :
          IF answer.ok
          THEN gp' = [gp EXCEPT ![r].phase = "store", ![r].values = answer.val]
          ELSE gp' = [gp EXCEPT ![r].phase = "ret",
                                ![r].err = Wrapf(RpcError(answer.code),
                                                 "cannot get params")]
    /\ UNCHANGED <<now, caches, loadGroup, actionParams, pc, inp, lk, loc, resp, log,
                   missLoads, lastNotFound>>

\* line 132: the map assignment begins.  Beginning it while another request
\* is inside its own is a data race: it goes on, or the runtime ends the
\* process.
GetParamsStore(r) ==
    /\ gp[r].phase = "store"
    /\ \/ /\ gp' = [gp EXCEPT ![r].phase = "storing"]
          /\ UNCHANGED <<now, caches, loadGroup, actionParams, pc, inp, lk, loc, resp,
                         log, missLoads, lastNotFound>>
       \/ /\ MapWriters(r) # {}
          /\ Fatal

\* lines 132-133: the map assignment ends and getParams returns the values
GetParamsStored(r) ==
    /\ gp[r].phase = "storing"
    /\ actionParams' = [actionParams EXCEPT ![gp[r].sig] =
           [set |-> TRUE, values |-> gp[r].values]]
    /\ gp' = [gp EXCEPT ![r].phase = "ret"]
    /\ UNCHANGED <<now, caches, loadGroup, pc, inp, lk, loc, resp, log,
                   missLoads, lastNotFound>>

(***************************************************************************)
(* The steps of action() and checkAccess().  Every step is computed as a   *)
(* record of what the request does next and applied by Goto.               *)
(***************************************************************************)
Goto(r, next) ==
    /\ pc' = [pc EXCEPT ![r] = next.pc]
    /\ lk' = [lk EXCEPT ![r] = next.lk]
    /\ gp' = [gp EXCEPT ![r] = next.gp]
    /\ loc' = [loc EXCEPT ![r] = next.loc]
    /\ resp' = [resp EXCEPT ![r] = next.resp]
    /\ log' = [log EXCEPT ![r] = @ \o next.events]

\* c.JSON(status, gin.H{"error": ...}) and return
JsonError(l, status, err, events) ==
    [pc |-> "done", lk |-> NoLookup, gp |-> NoGetParams, loc |-> l,
     resp |-> [status |-> status, body |-> "error", contentType |-> "application/json",
               err |-> err, path |-> Empty],
     events |-> events]

\* lines 276-280: the status of a failed item lookup
ItemFailureStatus(err) ==
    LET stat == FromError(err)
    IN  IF ~stat.ok \/ stat.code # "NotFound" THEN 404 ELSE 500

\* mutant: the test of lines 277-279 repeated for the direct calls
CallFailureStatusInverted(err) ==
    LET stat == FromError(err)
    IN  IF ~stat.ok \/ stat.code # "NotFound" THEN 404 ELSE 500

\* lines 300-315 and 343-350: the status of a failed direct call
CallFailureStatus(err) ==
    LET stat == FromError(err)
    IN  IF ~stat.ok \/ stat.code # "NotFound" THEN 500 ELSE 404

\* mutant: the rendition cache is asked before the result of checkAccess
\* is looked at
DeniedAfterGetCache(l, err, events) ==
    JsonError(l, 401, err, events \o <<"GetCache:334", "deny">>)

\* lines 288-293: checkAccess returned an error
Denied(l, err, events) == JsonError(l, 401, err, events \o <<"deny">>)

\* line 322: the actions that take no parameters
Parameterless == {"item", "master"}

\* lines 294-341: checkAccess returned nil
Allowed(in, l, events) ==
    IF in.action = "metadata"
    THEN [pc |-> "GetItemMetadata295", lk |-> NoLookup, gp |-> NoGetParams, loc |-> l,
          resp |-> NoResponse, events |-> events \o <<"allow", "GetItemMetadata:295">>]
    ELSE IF in.action \notin Parameterless
    THEN [pc |-> "getParams323", lk |-> NoLookup,
          gp |-> GetParamsOf(l.item.type, in.action), loc |-> l,
          resp |-> NoResponse, events |-> events \o <<"allow", "getParams:323">>]
    ELSE [pc |-> "GetCache334", lk |-> NoLookup, gp |-> NoGetParams,
          loc |-> [l EXCEPT !.params = NoParams],
          resp |-> NoResponse, events |-> events \o <<"allow", "GetCache:334">>]

\* mutant: the empty token is not refused before the collection is fetched
TokenCheckNoEmpty(in, l, events) ==
    [pc |-> "getCollection232",
     lk |-> Lookup("collectionCache", CollKey(in.collection)),
     gp |-> NoGetParams, loc |-> l, resp |-> NoResponse,
     events |-> events \o <<"getCollection:232">>]

\* lines 229-232: no public access, a token is needed
TokenCheck(in, l, events) ==
    IF in.token = NoToken
    THEN Denied(l, NewError("no token provided"), events)
    ELSE [pc |-> "getCollection232",
          lk |-> Lookup("collectionCache", CollKey(in.collection)),
          gp |-> NoGetParams, loc |-> l, resp |-> NoResponse,
          events |-> events \o <<"getCollection:232">>]

\* mutant: the public flag of the item is not looked at
AccessItemNotPublic(in, l, res) ==
    IF res.err # NoErr
    THEN Denied(l, Wrapf(res.err, "cannot get item"), Empty)
    ELSE LET l2 == [l EXCEPT !.accessItem = res.val]
         IN  IF res.val.publicActions # {}
             THEN [pc |-> "getParams218", lk |-> NoLookup,
                   gp |-> GetParamsOf(res.val.type, in.action), loc |-> l2,
                   resp |-> NoResponse, events |-> <<"getParams:218">>]
             ELSE TokenCheck(in, l2, Empty)

\* lines 208-217: checkAccess has its item
AccessItem(in, l, res) ==
    IF res.err # NoErr
    THEN Denied(l, Wrapf(res.err, "cannot get item"), Empty)
    ELSE LET l2 == [l EXCEPT !.accessItem = res.val]
         IN  IF res.val.public THEN Allowed(in, l2, Empty)
             ELSE IF res.val.publicActions # {}
             THEN [pc |-> "getParams218", lk |-> NoLookup,
                   gp |-> GetParamsOf(res.val.type, in.action), loc |-> l2,
                   resp |-> NoResponse, events |-> <<"getParams:218">>]
             ELSE TokenCheck(in, l2, Empty)

\* line 224: fmt.Sprintf("%s/%s", action, ap.String())
FullAction(action, ap) == <<action, Slash>> \o String(ap)

\* mutant: the list is searched for the action and the raw parameter string
AccessParamsRaw(in, l, g) ==
    IF g.err # NoErr
    THEN Denied(l, Wrapf(g.err, "cannot get params"), Empty)
    ELSE LET fullAction == <<in.action, Slash>> \o Trim(in.paramStr)
         IN  IF fullAction \in l.accessItem.publicActions
             THEN Allowed(in, l, <<"SetString:223">>)
             ELSE TokenCheck(in, l, <<"SetString:223">>)

\* lines 219-228: the public actions of the item
AccessParams(in, l, g) ==
    IF g.err # NoErr
    THEN Denied(l, Wrapf(g.err, "cannot get params"), Empty)
    ELSE LET fullAction == FullAction(in.action, SetString(in.paramStr, g.values))
         IN  IF fullAction \in l.accessItem.publicActions
             THEN Allowed(in, l, <<"SetString:223">>)
             ELSE TokenCheck(in, l, <<"SetString:223">>)

\* mutant: the token is parsed with whatever key the collection has
AccessTokenAnyKey(in, l, res) ==
    IF res.err # NoErr
    THEN Denied(l, Wrapf(res.err, "cannot get collection"), Empty)
    ELSE LET l2 == [l EXCEPT !.coll = res.val]
             parsed == ParseWithClaims(in.token, res.val.jwtkey)
             subject == ExpectedSubject(in.collection, in.signature, in.action, in.paramStr)
         IN  IF ~parsed.ok
             THEN Denied(l2, NewError("cannot parse jwt token"), <<"ParseWithClaims:240">>)
             ELSE IF parsed.sub # subject
             THEN Denied(l2, NewError("invalid subject"), <<"ParseWithClaims:240">>)
             ELSE Allowed(in, l2, <<"ParseWithClaims:240">>)

\* mutant: a token that verifies is accepted whatever its subject
AccessTokenAnySubject(in, l, res) ==
    IF res.err # NoErr
    THEN Denied(l, Wrapf(res.err, "cannot get collection"), Empty)
    ELSE LET l2 == [l EXCEPT !.coll = res.val]
             jwtKey == res.val.jwtkey
             parsed == ParseWithClaims(in.token, jwtKey)
         IN  IF jwtKey = NoKey
             THEN Denied(l2, NewError("no jwt key in collection configured"), Empty)
             ELSE IF ~parsed.ok
             THEN Denied(l2, NewError("cannot parse jwt token"), <<"ParseWithClaims:240">>)
             ELSE Allowed(in, l2, <<"ParseWithClaims:240">>)

\* lines 233-264: the collection's key and the token
AccessToken(in, l, res) ==
    IF res.err # NoErr
    THEN Denied(l, Wrapf(res.err, "cannot get collection"), Empty)
    ELSE LET l2 == [l EXCEPT !.coll = res.val]
             jwtKey == res.val.jwtkey
             parsed == ParseWithClaims(in.token, jwtKey)
             subject == ExpectedSubject(in.collection, in.signature, in.action, in.paramStr)
         IN  IF jwtKey = NoKey
             THEN Denied(l2, NewError("no jwt key in collection configured"), Empty)
             ELSE IF ~parsed.ok
             THEN Denied(l2, NewError("cannot parse jwt token"), <<"ParseWithClaims:240">>)
             ELSE IF parsed.sub # subject
             THEN Denied(l2, NewError("invalid subject"), <<"ParseWithClaims:240">>)
             ELSE Allowed(in, l2, <<"ParseWithClaims:240">>)

\* lines 384-396: the path given to FileFromFS; Empty with nil |-> TRUE
\* when a relative path has no storage
ServedPath(meta) ==
    IF isUrl(meta.path) THEN [nil |-> FALSE, path |-> meta.path]
    ELSE IF meta.storage.nil THEN [nil |-> TRUE, path |-> Empty]
    ELSE [nil |-> FALSE, path |-> meta.storage.filebase \o <<Slash>> \o meta.path]

\* lines 384-399: serve the rendition
Serve(l0, meta) ==
    LET served == ServedPath(meta)
        l == [l0 EXCEPT !.rendition = meta]
    IN  IF served.nil
        THEN JsonError(l, 500, NewError("no storage defined"), Empty)
        ELSE [pc |-> "done", lk |-> NoLookup, gp |-> NoGetParams, loc |-> l,
              resp |-> [status |-> 200, body |-> "file", contentType |-> meta.mimeType,
                        err |-> NoErr, path |-> served.path],
              events |-> <<"FileFromFS:398">>]


(***************************************************************************)
(* The handler, one action per stretch between two waits.                  *)
(***************************************************************************)
\* lines 267-274: a request arrives and looks its item up
Begin(r, signatures, actions, paramStrs, tokens) ==
    /\ pc[r] = "idle"
    /\ \E c \in Collections, s \in signatures, a \in actions,
          p \in paramStrs, t \in tokens :
          /\ inp' = [inp EXCEPT ![r] =
                 [collection |-> c, signature |-> s, action |-> a,
                  paramStr |-> p, token |-> t, cancelled |-> FALSE]]
          /\ lk' = [lk EXCEPT ![r] = Lookup("itemCache", ItemKey(c, s))]
    /\ pc' = [pc EXCEPT ![r] = "getItem274"]
    /\ gp' = [gp EXCEPT ![r] = NoGetParams]
    /\ loc' = [loc EXCEPT ![r] = NoLocals]
    /\ resp' = [resp EXCEPT ![r] = NoResponse]
    /\ log' = [log EXCEPT ![r] = <<"getItem:274">>]
    /\ UNCHANGED <<now, caches, loadGroup, actionParams, missLoads, lastNotFound>>

\* lines 274-288: getItem returned to action()
ActionGetItem(r) ==
    /\ pc[r] = "getItem274"
    /\ lk[r].phase = "ret"
    /\ Goto(r,
         IF lk[r].err # NoErr
         THEN LET err == Wrapf(lk[r].err, "cannot get item")
              IN  JsonError(loc[r], ItemFailureStatus(err), err, Empty)
         ELSE [pc |-> "getItem208",
               lk |-> Lookup("itemCache", ItemKey(inp[r].collection, inp[r].signature)),
               gp |-> NoGetParams, loc |-> [loc[r] EXCEPT !.item = lk[r].val],
               resp |-> NoResponse, events |-> <<"getItem:208">>])
    /\ UNCHANGED <<now, caches, loadGroup, actionParams, inp, missLoads, lastNotFound>>

\* lines 208-217: getItem returned to checkAccess()
CheckAccessGetItem(r) ==
    /\ pc[r] = "getItem208"
    /\ lk[r].phase = "ret"
    /\ Goto(r, AccessItem(inp[r], loc[r], lk[r]))
    /\ UNCHANGED <<now, caches, loadGroup, actionParams, inp, missLoads, lastNotFound>>

\* lines 218-232: getParams returned to checkAccess()
CheckAccessGetParams(r) ==
    /\ pc[r] = "getParams218"
    /\ gp[r].phase = "ret"
    /\ Goto(r, AccessParams(inp[r], loc[r], gp[r]))
    /\ UNCHANGED <<now, caches, loadGroup, actionParams, inp, missLoads, lastNotFound>>

\* lines 232-265: getCollection returned to checkAccess()
CheckAccessGetCollection(r) ==
    /\ pc[r] = "getCollection232"
    /\ lk[r].phase = "ret"
    /\ Goto(r, AccessToken(inp[r], loc[r], lk[r]))
    /\ UNCHANGED <<now, caches, loadGroup, actionParams, inp, missLoads, lastNotFound>>

\* lines 295-318: GetItemMetadata answered
GetItemMetadataReturn(r, env) ==
    /\ pc[r] = "GetItemMetadata295"
    /\ \E answer \in env.metadata :
          LET l == [loc[r] EXCEPT !.metadata = answer]
          IN
          Goto(r,
            IF ~answer.ok
            THEN JsonError(l, CallFailureStatus(RpcError(answer.code)),
                           RpcError(answer.code), Empty)
            ELSE [pc |-> "done", lk |-> NoLookup, gp |-> NoGetParams, loc |-> l,
                  resp |-> [status |-> 200, body |-> answer.val,
                            contentType |-> "application/json",
                            err |-> NoErr, path |-> Empty],
                  events |-> Empty])
    /\ UNCHANGED <<now, caches, loadGroup, actionParams, inp, missLoads, lastNotFound>>

\* lines 323-341: getParams returned to action()
ActionGetParams(r) ==
    /\ pc[r] = "getParams323"
    /\ gp[r].phase = "ret"
    /\ Goto(r,
         IF gp[r].err # NoErr
         THEN JsonError(loc[r], 500, Wrapf(gp[r].err, "cannot get params"), Empty)
         ELSE [pc |-> "GetCache334", lk |-> NoLookup, gp |-> NoGetParams,
               loc |-> [loc[r] EXCEPT !.params = SetString(inp[r].paramStr, gp[r].values)],
               resp |-> NoResponse, events |-> <<"SetString:331", "GetCache:334">>])
    /\ UNCHANGED <<now, caches, loadGroup, actionParams, inp, missLoads, lastNotFound>>

\* lines 342-353 and 384-399: GetCache answered
GetCacheReturn(r, env) ==
    /\ pc[r] = "GetCache334"
    /\ \E answer \in env.cache :
          LET l == [loc[r] EXCEPT !.cacheCode = answer.code]
          IN  Goto(r,
                IF answer.ok THEN Serve(l, answer.val)
                ELSE IF CallFailureStatus(RpcError(answer.code)) = 500
                THEN JsonError(l, 500, RpcError(answer.code), Empty)
                ELSE [pc |-> "GetCollection351", lk |-> NoLookup, gp |-> NoGetParams,
                      loc |-> l, resp |-> NoResponse,
                      events |-> <<"GetCollection:351">>])
    /\ UNCHANGED <<now, caches, loadGroup, actionParams, inp, missLoads, lastNotFound>>

\* mutant: the storage of the collection checkAccess fetched is sent
ActionParamAccessColl(in, l, coll) ==
    [Item |-> l.item, Action |-> in.action, Params |-> l.params, Storage |-> l.coll.storage]

\* lines 363-368: the ActionParam message sent to Action
ActionParam(in, l, coll) ==
    [Item |-> l.item, Action |-> in.action, Params |-> l.params, Storage |-> coll.storage]

\* the requests that wait for Action with the key of request r
Generating(r) ==
    {q \in Reqs \ {r} :
        /\ pc[q] = "Action363"
        /\ inp[q].collection = inp[r].collection
        /\ inp[q].signature = inp[r].signature
        /\ inp[q].action = inp[r].action
        /\ loc[q].params = loc[r].params}

\* mutant: a request that finds a generation of its key in flight waits
\* for Action's answer without invoking Action
GetCollectionReturnCoalesced(r, env) ==
    /\ pc[r] = "GetCollection351"
    /\ \E answer \in env.coll :
          Goto(r,
            IF ~answer.ok
            THEN JsonError(loc[r], 500, RpcError(answer.code), Empty)
            ELSE [pc |-> "Action363", lk |-> NoLookup, gp |-> NoGetParams,
                  loc |-> [loc[r] EXCEPT !.resolverColl = answer.val],
                  resp |-> NoResponse,
                  events |-> IF Generating(r) = {} THEN <<"Action:363">> ELSE Empty])
    /\ UNCHANGED <<now, caches, loadGroup, actionParams, inp, missLoads, lastNotFound>>

\* lines 354-368: GetCollection answered the resolver
GetCollectionReturn(r, env) ==
    /\ pc[r] = "GetCollection351"
    /\ \E answer \in env.coll :
          Goto(r,
            IF ~answer.ok
            THEN JsonError(loc[r], 500, RpcError(answer.code), Empty)
            ELSE [pc |-> "Action363", lk |-> NoLookup, gp |-> NoGetParams,
                  loc |-> [loc[r] EXCEPT
                             !.resolverColl = answer.val,
                             !.actionParam = ActionParam(inp[r], loc[r], answer.val)],
                  resp |-> NoResponse, events |-> <<"Action:363">>])
    /\ UNCHANGED <<now, caches, loadGroup, actionParams, inp, missLoads, lastNotFound>>

\* mutant: the result of Action is used without the nil test of line 377
ActionReturnUnchecked(r, env) ==
    /\ pc[r] = "Action363"
    /\ \E answer \in env.action :
          LET l == [loc[r] EXCEPT !.generated = answer]
          IN  Goto(r,
                IF ~answer.ok
                THEN JsonError(l, 500, RpcError(answer.code), Empty)
                ELSE Serve(l, answer.val))
    /\ UNCHANGED <<now, caches, loadGroup, actionParams, inp, missLoads, lastNotFound>>

\* lines 369-399: Action answered
ActionReturn(r, env) ==
    /\ pc[r] = "Action363"
    /\ \E answer \in env.action :
          LET l == [loc[r] EXCEPT !.generated = answer]
          IN  Goto(r,
                IF ~answer.ok
                THEN JsonError(l, 500, RpcError(answer.code), Empty)
                ELSE IF answer = NilAnswer
                THEN JsonError(l, 500, NewError("no cache"), Empty)
                ELSE Serve(l, answer.val))
    /\ UNCHANGED <<now, caches, loadGroup, actionParams, inp, missLoads, lastNotFound>>

\* the client closes the connection: the context of the inbound request is
\* cancelled.  Every downstream call is made with context.Background()
\* (lines 65, 85, 124, 295, 334, 351, 363), so no call in flight reads it.
Cancel(r) ==
    /\ pc[r] \notin {"idle", "done"}
    /\ ~inp[r].cancelled
    /\ inp' = [inp EXCEPT ![r].cancelled = TRUE]
    /\ UNCHANGED <<now, caches, loadGroup, actionParams, pc, lk, gp, loc, resp, log,
                   missLoads, lastNotFound>>

\* the handler has returned; the slot serves the next request
Finish(r) ==
    /\ pc[r] = "done"
    /\ pc' = [pc EXCEPT ![r] = "idle"]
    /\ inp' = [inp EXCEPT ![r] = NoInput]
    /\ loc' = [loc EXCEPT ![r] = NoLocals]
    /\ resp' = [resp EXCEPT ![r] = NoResponse]
    /\ log' = [log EXCEPT ![r] = Empty]
    /\ UNCHANGED <<now, caches, loadGroup, actionParams, lk, gp, missLoads, lastNotFound>>

(***************************************************************************)
(* Specifications.  An environment names the answers the downstream        *)
(* services give.  Spec: requests one after the other, with every input    *)
(* and every answer.  SpecConc: NumReq requests at once for the items of   *)
(* one collection, under a running clock, without tokens.                  *)
(***************************************************************************)
Env ==
    [item |-> ItemAnswers, coll |-> CollAnswers,
     params |-> [sig \in MediaTypes \X Actions |-> ParamAnswers(sig)],
     metadata |-> MetadataAnswers, cache |-> CacheAnswers, action |-> ActionAnswers]

Next ==
    \/ Begin(1, {"s1"}, Actions, ParamStrs, Tokens)
    \/ CacheGet(1)
    \/ GroupDo(1)
    \/ LoaderReturn(1, Env)
    \/ GroupForget(1)
    \/ GetParamsRead(1)
    \/ GetParamsReturn(1, Env)
    \/ GetParamsStore(1)
    \/ GetParamsStored(1)
    \/ ActionGetItem(1)
    \/ CheckAccessGetItem(1)
    \/ CheckAccessGetParams(1)
    \/ CheckAccessGetCollection(1)
    \/ GetItemMetadataReturn(1, Env)
    \/ ActionGetParams(1)
    \/ GetCacheReturn(1, Env)
    \/ GetCollectionReturn(1, Env)
    \/ ActionReturn(1, Env)
    \/ Finish(1)

Spec == Init /\ [][Next]_vars

\* SpecLookup: NumReq requests at a time, without a token, for one
\* restricted item, under a running clock.
EnvLookup ==
    [item |-> {a \in ItemAnswers : ~a.val.public /\ a.val.publicActions = {}},
     coll |-> {}, params |-> [sig \in MediaTypes \X Actions |-> {}],
     metadata |-> {}, cache |-> {}, action |-> {}]

NextLookup ==
    \/ \E r \in Reqs :
          \/ Begin(r, {"s1"}, {"thumb"}, {<<Slash, "s200">>}, {NoToken})
          \/ CacheGet(r)
          \/ GroupDo(r)
          \/ LoaderReturn(r, EnvLookup)
          \/ GroupForget(r)
          \/ ActionGetItem(r)
          \/ CheckAccessGetItem(r)
          \/ Finish(r)
    \/ Tick

SpecLookup == Init /\ [][NextLookup]_vars

\* SpecLoad: NumReq requests at a time for one restricted item, with a
\* token signed with another key than the collection's, so that every
\* request looks up its item and its collection and is then refused; the
\* metadata service answers or is unavailable.
EnvLoad ==
    [item |-> {Ok([public |-> FALSE, publicActions |-> {}, type |-> "image"]),
               Fail(NilItem, "Unavailable")},
     coll |-> {Ok([jwtkey |-> "k1", storage |-> "st1"]), Fail(NilColl, "Unavailable")},
     params |-> [sig \in MediaTypes \X Actions |-> {}],
     metadata |-> {}, cache |-> {}, action |-> {}]

NextLoad ==
    \E r \in Reqs :
        \/ Begin(r, {"s1"}, {"thumb"}, {<<Slash, "s200">>},
                 {t \in Tokens : t.alg = "HS256" /\ t.key = "k2"})
        \/ CacheGet(r)
        \/ GroupDo(r)
        \/ LoaderReturn(r, EnvLoad)
        \/ GroupForget(r)
        \/ ActionGetItem(r)
        \/ CheckAccessGetItem(r)
        \/ CheckAccessGetCollection(r)
        \/ Finish(r)

SpecLoad == Init /\ [][NextLoad]_vars

\* SpecCancel: one request at a time, for a public or a restricted item,
\* without token or with the token issued for it; every service answers,
\* and the client may go away at any moment.
EnvCancel ==
    [item |-> {a \in ItemAnswers : a.ok /\ a.val.publicActions = {}},
     coll |-> {Ok([jwtkey |-> "k1", storage |-> "st1"])},
     params |-> [sig \in MediaTypes \X Actions |-> {Ok(ParamsFor(sig))}],
     metadata |-> {Ok("doc")},
     cache |-> {Fail(NilCache, "NotFound")},
     action |-> {Ok([path |-> <<"x">>, mimeType |-> "image/png",
                     storage |-> StorageAt(<<"b">>)])}]

NextCancel ==
    \/ Begin(1, {"s1"}, {"thumb", "metadata"}, {<<Slash, "s200">>},
             {NoToken,
              [alg |-> "HS256", key |-> "k1",
               sub |-> ExpectedSubject("c1", "s1", "thumb", <<Slash, "s200">>)]})
    \/ Cancel(1)
    \/ CacheGet(1)
    \/ GroupDo(1)
    \/ LoaderReturn(1, EnvCancel)
    \/ GroupForget(1)
    \/ GetParamsRead(1)
    \/ GetParamsReturn(1, EnvCancel)
    \/ GetParamsStore(1)
    \/ GetParamsStored(1)
    \/ ActionGetItem(1)
    \/ CheckAccessGetItem(1)
    \/ CheckAccessGetCollection(1)
    \/ GetItemMetadataReturn(1, EnvCancel)
    \/ ActionGetParams(1)
    \/ GetCacheReturn(1, EnvCancel)
    \/ GetCollectionReturn(1, EnvCancel)
    \/ ActionReturn(1, EnvCancel)
    \/ Finish(1)

SpecCancel == Init /\ [][NextCancel]_vars

\* SpecGen: NumReq requests at a time, under a running clock, for one
\* rendition of one public item that the rendition cache does not have;
\* the action service gives the parameter names or is unavailable, and
\* Action answers one of two renditions.
EnvGen ==
    [item |-> {Ok([public |-> TRUE, publicActions |-> {}, type |-> "image"])},
     coll |-> {Ok([jwtkey |-> "k1", storage |-> "st1"])},
     params |-> [sig \in MediaTypes \X Actions |-> ParamAnswers(sig)],
     metadata |-> {},
     cache |-> {Fail(NilCache, "NotFound")},
     action |-> {Ok([path |-> p, mimeType |-> "image/png", storage |-> StorageAt(<<"b">>)]) :
                    p \in {<<"x">>, <<"v", "f", ":", Slash, Slash, "x">>}}]

NextGen ==
    \/ \E r \in Reqs :
          \/ Begin(r, {"s1"}, {"thumb"}, {<<Slash, "s200">>}, {NoToken})
          \/ CacheGet(r)
          \/ GroupDo(r)
          \/ LoaderReturn(r, EnvGen)
          \/ GroupForget(r)
          \/ GetParamsRead(r)
          \/ GetParamsReturn(r, EnvGen)
          \/ GetParamsStore(r)
          \/ GetParamsStored(r)
          \/ ActionGetItem(r)
          \/ CheckAccessGetItem(r)
          \/ ActionGetParams(r)
          \/ GetCacheReturn(r, EnvGen)
          \/ GetCollectionReturn(r, EnvGen)
          \/ ActionReturn(r, EnvGen)
    \/ Tick

SpecGen == Init /\ [][NextGen]_vars

ConcRendition ==
    [path |-> <<"x">>, mimeType |-> "image/png", storage |-> StorageAt(<<"b">>)]

EnvConc ==
    [item |-> {a \in ItemAnswers : a.val.publicActions = {}},
     coll |-> {Ok([jwtkey |-> "k1", storage |-> "st1"])},
     params |-> [sig \in MediaTypes \X Actions |-> {Ok(ParamsFor(sig))}],
     metadata |-> {},
     cache |-> {Ok(ConcRendition), Fail(NilCache, "NotFound")},
     action |-> {Ok(ConcRendition)}]

NextConc ==
    \/ \E r \in Reqs :
          \/ Begin(r, Signatures, {"thumb"}, {<<Slash, "s200">>}, {NoToken})
          \/ CacheGet(r)
          \/ GroupDo(r)
          \/ LoaderReturn(r, EnvConc)
          \/ GroupForget(r)
          \/ GetParamsRead(r)
          \/ GetParamsReturn(r, EnvConc)
          \/ GetParamsStore(r)
          \/ GetParamsStored(r)
          \/ ActionGetItem(r)
          \/ CheckAccessGetItem(r)
          \/ ActionGetParams(r)
          \/ GetCacheReturn(r, EnvConc)
          \/ GetCollectionReturn(r, EnvConc)
          \/ ActionReturn(r, EnvConc)
    \/ Tick

SpecConc == Init /\ [][NextConc]_vars


(***************************************************************************)
(* Properties.                                                             *)
(***************************************************************************)
Has(r, event) == \E i \in DOMAIN log[r] : log[r][i] = event
Count(r, event) == Cardinality({i \in DOMAIN log[r] : log[r][i] = event})

\* the requests whose gcache Get runs the loader of the item key
Loading(lks, key) ==
    {r \in Reqs : lks[r].cache = "itemCache" /\ lks[r].key = key /\ lks[r].phase = "load"}

\* C1 as claimed: for the lookups of one key that overlap while the key is
\* absent, GetItem is invoked at most once (and so all of them get the one
\* result): no second load begins while lookups that missed are pending.
C1_OneLoadPerMiss == \A k \in ItemKeys : missLoads[k] <= 1

\* C1 as amended: at any time at most one GetItem call per key is in
\* flight; a lookup that finds a load of its key in flight makes no call of
\* its own and, when the load ends, returns that load's result, item or
\* failure.
C1_SingleFlight ==
    [][ /\ \A k \in ItemKeys : Cardinality(Loading(lk', k)) <= 1
        /\ \A r \in Reqs, w \in Reqs :
              ( /\ lk[r].phase = "load"
                /\ lk'[r].phase # "load"
                /\ lk[w].phase = "wait"
                /\ lk[w].cache = lk[r].cache
                /\ lk[w].key = lk[r].key )
              => ( /\ lk'[w].phase = "ret"
                   /\ lk'[w].val = lk'[r].val
                   /\ lk'[w].err = lk'[r].err
                   /\ log'[w] = log[w] )
      ]_vars

\* C1 witness: a lookup has just been handed the result of the load it
\* waited for.
C1_Witness ==
    \E r \in Reqs, w \in Reqs :
        /\ r # w
        /\ lk[r].phase = "unreg"
        /\ lk[w].phase = "ret"
        /\ lk[w].via = "shared"
        /\ lk[w].key = lk[r].key
        /\ lk[w].err = lk[r].err
        /\ lk[w].err # NoErr

\* a load of the item key runs that began less than the expiration after
\* GetItem answered NotFound for the key
RefetchBeforeExpiry(r) ==
    /\ lk[r].cache = "itemCache"
    /\ lk[r].phase = "load"
    /\ lastNotFound.seen
    /\ lastNotFound.key = lk[r].key
    /\ lk[r].since < lastNotFound.at + CacheTimout

Decided(r) == Has(r, "allow") \/ Has(r, "deny")

\* the position of the first event of that name in the log, 0 if none
First(r, event) ==
    IF Has(r, event)
    THEN CHOOSE i \in DOMAIN log[r] :
            /\ log[r][i] = event
            /\ \A j \in 1..(i - 1) : log[r][j] # event
    ELSE 0

\* the request ended at lines 275-287: its first item lookup failed
ItemLookupFailed(r) ==
    /\ pc[r] = "done"
    /\ ~Has(r, "getItem:208")
    /\ resp[r].err.msg = "cannot get item"

\* C3 as claimed: when the item lookup at the start of a request fails, the
\* status is 404 exactly when the metadata service reported the item as not
\* found and 500 for every other failure; the body is a JSON error and
\* nothing further is done.
C3_ItemFailureStatus ==
    \A r \in Reqs :
        ItemLookupFailed(r) =>
            /\ resp[r].status = (IF resp[r].err.keyNotFound THEN 404 ELSE 500)
            /\ resp[r].body = "error"
            /\ resp[r].contentType = "application/json"
            /\ \A i \in DOMAIN log[r] : log[r][i] \in {"getItem:274", "GetItem:65"}

\* the events of an item lookup
ItemLookupEvents == {"getItem:274", "GetItem:65", "getItem:208"}

\* C4: for an item whose public flag is true checkAccess allows the
\* request, whatever the action, the parameter string and the token, and up
\* to that decision the request has done nothing but look the item up: no
\* collection fetch, no parameter registry, no token verifier.
C4_PublicAllowed ==
    \A r \in Reqs :
        loc[r].accessItem.public =>
            /\ Has(r, "allow")
            /\ ~Has(r, "deny")
            /\ resp[r].status # 401
            /\ \A j \in 1..(First(r, "allow") - 1) : log[r][j] \in ItemLookupEvents
            /\ ~Has(r, "getCollection:232")
            /\ ~Has(r, "GetCollection:85")
            /\ ~Has(r, "getParams:218")
            /\ ~Has(r, "SetString:223")
            /\ ~Has(r, "ParseWithClaims:240")

\* C4 witness: a public item is served to a request that carries a token
\* the verifier would refuse.
C4_Witness ==
    \E r \in Reqs :
        /\ loc[r].accessItem.public
        /\ inp[r].token.alg = "none"
        /\ inp[r].action = "thumb"
        /\ inp[r].paramStr = <<Slash, "s300">>
        /\ Has(r, "allow")
        /\ resp[r].status = 200

\* "{action}/{canonicalParams}" of a request for an item of that type
CanonicalAction(in, mediaType) ==
    <<in.action, Slash>> \o String(SetString(in.paramStr, ParamsFor(<<mediaType, in.action>>)))

\* checkAccess has looked the request up in the public actions of a
\* non-public item and the request carries no token
PublicActionsChecked(r) ==
    /\ ~loc[r].accessItem.public
    /\ loc[r].accessItem.publicActions # {}
    /\ inp[r].token = NoToken
    /\ Has(r, "SetString:223")

\* C5: for a non-public item with a non-empty public-action list and no
\* token, checkAccess allows the request exactly when
\* "{action}/{canonicalParams}" is an entry of the list; with the entry
\* thumb/s200 the request thumb /s200 is allowed and thumb /s300 is denied.
C5_PublicActionMatch ==
    \A r \in Reqs :
        PublicActionsChecked(r) =>
            LET listed == CanonicalAction(inp[r], loc[r].accessItem.type)
                              \in loc[r].accessItem.publicActions
            IN  /\ Has(r, "allow") <=> listed
                /\ Has(r, "deny") <=> ~listed
                /\ ( /\ inp[r].action = "thumb"
                     /\ <<"thumb", Slash, "s200">> \in loc[r].accessItem.publicActions )
                   => /\ inp[r].paramStr = <<Slash, "s200">> => Has(r, "allow")
                      /\ inp[r].paramStr = <<Slash, "s300">> => resp[r].status = 401

\* C5 witness: a request without token is allowed for a parameter string
\* that is listed only in its canonical form.
C5_Witness ==
    \E r \in Reqs :
        /\ PublicActionsChecked(r)
        /\ inp[r].action = "thumb"
        /\ inp[r].paramStr = <<Slash, "zz", Slash, "s200", Slash>>
        /\ Has(r, "allow")
        /\ ~Has(r, "deny")

\* checkAccess has its item, which is not public, the request carries no
\* token and matches no public action
NoTokenNoMatch(r) ==
    /\ Has(r, "getItem:208")
    /\ loc[r].accessItem.type # ""
    /\ ~loc[r].accessItem.public
    /\ inp[r].token = NoToken
    /\ \/ loc[r].accessItem.publicActions = {}
       \/ /\ Has(r, "SetString:223")
          /\ CanonicalAction(inp[r], loc[r].accessItem.type)
                 \notin loc[r].accessItem.publicActions

\* C6: a request for a non-public item that carries no token and matches
\* no public action is denied with "no token provided" and answered 401
\* with a JSON error body, and neither the collection is fetched nor the
\* token verifier invoked.
C6_NoTokenDenied ==
    \A r \in Reqs :
        NoTokenNoMatch(r) =>
            /\ pc[r] = "done"
            /\ Has(r, "deny")
            /\ ~Has(r, "allow")
            /\ resp[r].status = 401
            /\ resp[r].err.msg = "no token provided"
            /\ resp[r].body = "error"
            /\ resp[r].contentType = "application/json"
            /\ ~Has(r, "getCollection:232")
            /\ ~Has(r, "GetCollection:85")
            /\ ~Has(r, "ParseWithClaims:240")

\* C6 witness: a request without token that misses the public actions of
\* its item has been denied.
C6_Witness ==
    \E r \in Reqs :
        /\ NoTokenNoMatch(r)
        /\ loc[r].accessItem.publicActions # {}
        /\ inp[r].action = "thumb"
        /\ resp[r].status = 401
        /\ resp[r].err.msg = "no token provided"

\* the token verifier has accepted the token of the request
Verified(r) ==
    /\ Has(r, "ParseWithClaims:240")
    /\ ParseWithClaims(inp[r].token, loc[r].coll.jwtkey).ok

\* "{collection}/{signature}/{action}/{canonicalParams}" of a request,
\* without the separator at the end that empty parameters leave
RequestCanonicalSubject(r) ==
    Trim(<<inp[r].collection, Slash, inp[r].signature, Slash, inp[r].action, Slash>>
            \o String(SetString(inp[r].paramStr,
                                ParamsFor(<<loc[r].accessItem.type, inp[r].action>>))))

\* "{collection}/{signature}/{action}/{params}" with the parameter string
\* as routed, separators at both ends removed
RawSubject(collection, signature, action, paramStr) ==
    Trim(<<collection, Slash, signature, Slash, action, Slash>> \o paramStr)

Once(r, event) == Count(r, event) <= 1
Follows(r, event, earlier) ==
    Has(r, event) => Has(r, earlier) /\ First(r, earlier) < First(r, event)

\* C8: GetCache is called at most once in a request; after it answered
\* NotFound the collection is fetched from the metadata service, and when
\* that succeeds Action is invoked exactly once, with the item, the action,
\* the parameter set of the request and the storage of the collection just
\* fetched; the rendition Action returns is the one that is served.
C8_GenerateOnMiss ==
    \A r \in Reqs :
        /\ Once(r, "GetCache:334")
        /\ Once(r, "GetCollection:351")
        /\ Once(r, "Action:363")
        /\ Follows(r, "GetCollection:351", "GetCache:334")
        /\ Follows(r, "Action:363", "GetCollection:351")
        /\ loc[r].cacheCode = "NotFound" => Has(r, "GetCollection:351")
        /\ Has(r, "GetCollection:351") => loc[r].cacheCode = "NotFound"
        /\ ( Has(r, "GetCollection:351") /\ loc[r].resolverColl # NilColl )
               => Has(r, "Action:363")
        /\ Has(r, "Action:363") =>
              /\ loc[r].actionParam.Item = loc[r].item
              /\ loc[r].actionParam.Action = inp[r].action
              /\ loc[r].actionParam.Params =
                     IF inp[r].action \in {"item", "master"} THEN Empty
                     ELSE SetString(inp[r].paramStr,
                                    ParamsFor(<<loc[r].item.type, inp[r].action>>))
              /\ loc[r].actionParam.Storage = loc[r].resolverColl.storage
              /\ loc[r].resolverColl \in CollVals
        /\ ( /\ Has(r, "Action:363")
             /\ pc[r] = "done"
             /\ loc[r].generated.ok
             /\ loc[r].generated # NilAnswer )
               => /\ loc[r].rendition = loc[r].generated.val
                  /\ resp[r].status = 200 =>
                        /\ Has(r, "FileFromFS:398")
                        /\ resp[r].contentType = loc[r].generated.val.mimeType
                        /\ resp[r].path \in
                              { loc[r].generated.val.path,
                                loc[r].generated.val.storage.filebase
                                    \o <<Slash>> \o loc[r].generated.val.path }

\* C8 witness: a generated rendition is served, made with the storage of
\* the collection the resolver fetched, which differs from the one
\* checkAccess had.
C8_Witness ==
    \E r \in Reqs :
        /\ pc[r] = "done"
        /\ loc[r].cacheCode = "NotFound"
        /\ Has(r, "Action:363")
        /\ Has(r, "FileFromFS:398")
        /\ loc[r].coll # NilColl
        /\ loc[r].coll.storage # loc[r].resolverColl.storage
        /\ loc[r].actionParam.Storage = loc[r].resolverColl.storage
        /\ loc[r].rendition = loc[r].generated.val

\* the rendition paths that begin with a lower-case scheme and "://"
AbsolutePaths == { <<"v", "f", ":", Slash, Slash, "x">> }

\* C9: the path handed to the filesystem is the rendition path unchanged
\* when it is an absolute locator, and otherwise the filebase of the
\* rendition's storage, "/", and the path; a relative path without storage
\* ends the request with 500 and nothing is served.
C9_ServedPath ==
    \A r \in Reqs :
        LET meta == loc[r].rendition
        IN  /\ Has(r, "FileFromFS:398") =>
                /\ meta.path \in Paths
                /\ resp[r].status = 200
                /\ resp[r].contentType = meta.mimeType
                /\ meta.path \in AbsolutePaths => resp[r].path = meta.path
                /\ meta.path \notin AbsolutePaths =>
                      /\ ~meta.storage.nil
                      /\ resp[r].path = meta.storage.filebase \o <<Slash>> \o meta.path
            /\ ( meta.path \in Paths \ AbsolutePaths /\ meta.storage.nil ) =>
                /\ pc[r] = "done"
                /\ resp[r].status = 500
                /\ resp[r].body = "error"
                /\ resp[r].path = Empty
                /\ ~Has(r, "FileFromFS:398")
            /\ ( meta.path \in Paths /\ ~(meta.path \notin AbsolutePaths /\ meta.storage.nil) )
                  => Has(r, "FileFromFS:398")

\* C9 witness: a path with an upper-case scheme is served below the
\* filebase of its storage.
C9_Witness ==
    \E r \in Reqs :
        /\ Has(r, "FileFromFS:398")
        /\ loc[r].rendition.path = <<"V", ":", Slash, Slash, "x">>
        /\ resp[r].path = <<"b", Slash, "V", ":", Slash, Slash, "x">>

\* the events of parameter handling
ParamEvents == {"getParams:218", "getParams:323", "GetParams:124",
                "SetString:223", "SetString:331"}

\* C10 as claimed: for a request whose action is item or master, whatever
\* the item and the token, GetParams is never invoked and no parameter
\* string is canonicalized, in checkAccess or after it.
C10_NoParamHandling ==
    \A r \in Reqs :
        inp[r].action \in {"item", "master"} =>
            \A i \in DOMAIN log[r] : log[r][i] \notin ParamEvents

\* the events of rendition resolution
RenditionEvents == {"getParams:323", "SetString:331", "GetCache:334",
                    "GetCollection:351", "Action:363", "FileFromFS:398"}

\* C11: an authorized request with action metadata calls GetItemMetadata
\* once and neither GetCache nor Action nor the filesystem; it answers 200
\* with application/json and the stored document as it is, 404 when
\* GetItemMetadata reports not found and 500 on any other failure.
C11_MetadataPassThrough ==
    \A r \in Reqs :
        ( inp[r].action = "metadata" /\ Has(r, "allow") ) =>
            /\ Count(r, "GetItemMetadata:295") = 1
            /\ \A i \in DOMAIN log[r] : log[r][i] \notin RenditionEvents
            /\ loc[r].rendition = NilCache
            /\ resp[r].path = Empty
            /\ pc[r] = "done" =>
                  LET answer == loc[r].metadata
                  IN  /\ answer \in MetadataAnswers
                      /\ answer.ok =>
                            /\ resp[r].status = 200
                            /\ resp[r].contentType = "application/json"
                            /\ resp[r].body = answer.val
                      /\ ( ~answer.ok /\ answer.code = "NotFound" ) =>
                            /\ resp[r].status = 404
                            /\ resp[r].body = "error"
                      /\ ( ~answer.ok /\ answer.code # "NotFound" ) =>
                            /\ resp[r].status = 500
                            /\ resp[r].body = "error"

\* C11 witness: a metadata request for a public item has been answered
\* with the stored document.
C11_Witness ==
    \E r \in Reqs :
        /\ inp[r].action = "metadata"
        /\ loc[r].accessItem.public
        /\ Has(r, "allow")
        /\ pc[r] = "done"
        /\ resp[r].status = 200
        /\ resp[r].body = "{}"

\* checkAccess has fetched the collection and its jwt key is empty
EmptyKeyFetched(r) ==
    /\ Has(r, "getCollection:232")
    /\ loc[r].coll \in CollVals
    /\ loc[r].coll.jwtkey = ""

\* C12: when the collection fetched for a request with a token has an
\* empty jwt key, the request is denied with 401 and a reason that names
\* the missing key, and the token is not handed to the verifier; the
\* handler returns as after any other denial.
C12_EmptyKeyDenied ==
    \A r \in Reqs :
        EmptyKeyFetched(r) =>
            /\ inp[r].token # NoToken
            /\ ~loc[r].accessItem.public
            /\ pc[r] = "done"
            /\ Has(r, "deny")
            /\ ~Has(r, "allow")
            /\ ~Has(r, "ParseWithClaims:240")
            /\ resp[r].status = 401
            /\ resp[r].body = "error"
            /\ resp[r].contentType = "application/json"
            /\ resp[r].err.msg = "no jwt key in collection configured"

\* C12 witness: a request with a well-formed token has been denied because
\* its collection has no key.
C12_Witness ==
    \E r \in Reqs :
        /\ EmptyKeyFetched(r)
        /\ inp[r].token.alg = "HS256"
        /\ resp[r].status = 401
        /\ resp[r].err.msg = "no jwt key in collection configured"

\* checkAccess ended with the failure of its collection fetch or of its
\* allow-list fetch, and the failure is not a not-found
AuthorizationBackendFailure(r) ==
    /\ pc[r] = "done"
    /\ Has(r, "getItem:208")
    /\ ~Has(r, "allow")
    /\ resp[r].err.msg \in {"cannot get collection", "cannot get params"}
    /\ ~resp[r].err.keyNotFound
    /\ resp[r].err.code \notin {"None", "NotFound"}

\* C13 as claimed: a failure other than not-found of GetCollection or of
\* GetParams during authorization is answered with HTTP 500, not 401 or 404.
C13_AuthorizationFailure500 ==
    \A r \in Reqs : AuthorizationBackendFailure(r) => resp[r].status = 500

\* an error of a load that is not the not-found of the loader
OtherFailure(err) == err # NoErr /\ ~err.keyNotFound

\* C14: a failure of GetItem or GetCollection other than NotFound is never
\* stored: the load leaves its cache as it was, the lookups waiting for the
\* load return the same failure, no cache ever holds an entry without a
\* value, and a lookup that reaches the loader with no entry and no call
\* for its key invokes the upstream call.
C14_FailureNotStored ==
    [][ /\ \A r \in Reqs :
             ( /\ lk[r].phase = "load"
               /\ lk'[r].phase = "unreg"
               /\ OtherFailure(lk'[r].err) )
             => /\ caches' = caches
                /\ lk'[r].err.code = "Unavailable"
                /\ \A w \in Waiters(lk[r].cache, lk[r].key) :
                      /\ lk'[w].phase = "ret"
                      /\ lk'[w].err = lk'[r].err
                      /\ log'[w] = log[w]
        /\ \A r \in Reqs :
             ( /\ lk[r].phase = "do"
               /\ lk'[r] # lk[r]
               /\ ~Hit(caches[lk[r].cache], lk[r].key, now)
               /\ loadGroup[lk[r].cache][lk[r].key].state = "none" )
             => /\ lk'[r].phase = "load"
                /\ Count(r, LoadEvent(lk[r].cache))' = Count(r, LoadEvent(lk[r].cache)) + 1
        /\ \A c \in CacheNames : \A i \in DOMAIN caches'[c] :
             caches'[c][i].value # NilOf(c)
      ]_vars

\* C14 witness: a lookup of the collection has been handed the failure of
\* the load it waited for, and the cache holds no entry for the key.
C14_Witness ==
    \E r \in Reqs, w \in Reqs :
        /\ r # w
        /\ lk[r].cache = "collectionCache"
        /\ lk[r].phase = "unreg"
        /\ OtherFailure(lk[r].err)
        /\ lk[w].cache = "collectionCache"
        /\ lk[w].phase = "ret"
        /\ lk[w].via = "shared"
        /\ lk[w].err = lk[r].err
        /\ IndexOf(caches.collectionCache, lk[r].key) = 0

\* the direct calls of action(): the request waits for the answer
DirectCalls == {"GetItemMetadata295", "GetCache334", "GetCollection351", "Action363"}

\* a downstream call of the request ends in this step
CallEnds(r) ==
    \/ lk[r].phase = "load" /\ lk'[r].phase # "load"
    \/ gp[r].phase = "call" /\ gp'[r].phase # "call"
    \/ pc[r] \in DirectCalls /\ pc'[r] # pc[r]

\* the call that ends in this step ends as a cancelled call does: with the
\* status Canceled as its error
EndsCancelled(r) ==
    \/ lk[r].phase = "load" /\ lk'[r].err.code = "Canceled"
    \/ gp[r].phase = "call" /\ gp'[r].err.code = "Canceled"
    \/ pc[r] \in DirectCalls /\ resp'[r].err.code = "Canceled"

\* C15 as claimed: when the inbound request is cancelled while one of its
\* downstream calls is in flight, the call is cancelled: it does not run
\* to completion and deliver the service's answer to the request.
C15_CallsCancelled ==
    [][ \A r \in Reqs :
          ( inp[r].cancelled /\ CallEnds(r) ) => EndsCancelled(r)
      ]_vars

\* the request reads the registry map (line 121) or begins its assignment
\* (line 132) in this step
MapAccess(r) ==
    /\ gp[r].phase \in {"read", "store"}
    /\ gp'[r] # gp[r]

\* C16 as claimed: the registry is synchronized: no getParams call reads
\* the map or begins to write it while another call is inside its write,
\* and so the runtime never ends the process over the map.
C16_RegistrySynchronized ==
    [][ /\ \A r \in Reqs : MapAccess(r) => MapWriters(r) = {}
        /\ \A r \in Reqs : pc'[r] # "fatal"
      ]_vars

\* two requests ask for the same rendition
SameRendition(r, q) ==
    /\ inp[r].collection = inp[q].collection
    /\ inp[r].signature = inp[q].signature
    /\ inp[r].action = inp[q].action
    /\ loc[r].params = loc[q].params

\* C17: generation is not coalesced: every request whose GetCache answered
\* NotFound and whose collection fetch succeeded invokes Action itself,
\* whatever other requests for the same rendition are doing, and a request
\* that Action answered with a rendition serves that rendition.
C17_GenerationNotCoalesced ==
    \A r \in Reqs :
        /\ ( loc[r].cacheCode = "NotFound" /\ loc[r].resolverColl \in CollVals )
              => Count(r, "Action:363") = 1
        /\ ( /\ pc[r] = "done"
             /\ Has(r, "Action:363")
             /\ loc[r].generated.ok
             /\ loc[r].generated # NilAnswer )
              => /\ loc[r].rendition = loc[r].generated.val
                 /\ resp[r].status = 200
                 /\ resp[r].contentType = loc[r].generated.val.mimeType
                 /\ resp[r].path \in
                       { loc[r].generated.val.path,
                         loc[r].generated.val.storage.filebase
                             \o <<Slash>> \o loc[r].generated.val.path }

\* C17 witness: the Action calls of two requests for the same rendition
\* are in flight at the same time.
C17_Witness ==
    \E r \in Reqs, q \in Reqs :
        /\ r # q
        /\ SameRendition(r, q)
        /\ pc[r] = "Action363" /\ pc[q] = "Action363"
        /\ Count(r, "Action:363") = 1 /\ Count(q, "Action:363") = 1
        /\ loc[r].cacheCode = "NotFound" /\ loc[q].cacheCode = "NotFound"

\* Action has answered the request with neither a rendition nor an error
AnsweredNil(r) ==
    /\ pc[r] = "done"
    /\ Has(r, "Action:363")
    /\ loc[r].generated = NilAnswer

\* C18: when Action returns neither error nor result, the request ends
\* with 500 and a JSON error body; no path or mime type is read from the
\* missing result and nothing is served.
C18_NilResult500 ==
    \A r \in Reqs :
        AnsweredNil(r) =>
            /\ resp[r].status = 500
            /\ resp[r].body = "error"
            /\ resp[r].contentType = "application/json"
            /\ resp[r].err.msg = "no cache"
            /\ resp[r].path = Empty
            /\ loc[r].rendition = NilCache
            /\ ~Has(r, "FileFromFS:398")

\* C18 witness: a request has been answered 500 after Action returned
\* nothing.
C18_Witness ==
    \E r \in Reqs :
        /\ AnsweredNil(r)
        /\ loc[r].cacheCode = "NotFound"
        /\ loc[r].resolverColl \in CollVals
        /\ resp[r].status = 500

\* the registry entries are those of the pairs (type, action)
ParamSigs == MediaTypes \X Actions

\* C19: once a getParams for a pair has stored its list, the entry stays
\* as it is, whatever time passes, and a getParams that reads the map
\* afterwards returns that list without calling GetParams; a getParams
\* that returns successfully after a fetch has stored the list it returns;
\* a failed fetch leaves the map as it was, and a getParams that finds no
\* entry calls GetParams.
C19_RegistryMemoized ==
    [][ /\ \A sig \in ParamSigs :
             actionParams[sig].set => actionParams'[sig] = actionParams[sig]
        /\ \A r \in Reqs :
             /\ ( /\ gp[r].phase = "read"
                  /\ gp'[r] # gp[r]
                  /\ pc'[r] # "fatal"
                  /\ actionParams[gp[r].sig].set )
                => /\ gp'[r].phase = "ret"
                   /\ gp'[r].err = NoErr
                   /\ gp'[r].values = actionParams[gp[r].sig].values
                   /\ log'[r] = log[r]
             /\ ( /\ gp[r].phase = "read"
                  /\ gp'[r] # gp[r]
                  /\ MapWriters(r) = {}
                  /\ ~actionParams[gp[r].sig].set )
                => /\ gp'[r].phase = "call"
                   /\ Count(r, "GetParams:124")' = Count(r, "GetParams:124") + 1
             /\ ( gp[r].phase = "storing" /\ gp'[r].phase = "ret" )
                => /\ gp'[r].err = NoErr
                   /\ actionParams'[gp[r].sig] = [set |-> TRUE, values |-> gp'[r].values]
             /\ ( gp[r].phase = "call" /\ gp'[r].phase = "ret" )
                => /\ gp'[r].err # NoErr
                   /\ actionParams' = actionParams
      ]_vars

\* C19 witness: after time has passed, a getParams has returned the stored
\* list of its pair without calling GetParams.
C19_Witness ==
    \E r \in Reqs :
        /\ gp[r].phase = "ret"
        /\ gp[r].err = NoErr
        /\ ~Has(r, "GetParams:124")
        /\ actionParams[gp[r].sig].set
        /\ gp[r].values = actionParams[gp[r].sig].values
        /\ gp[r].values = <<"size">>
        /\ now > 0

\* C20 as claimed: the resolver gets the collection through the
\* collection cache: no upstream GetCollection call of the resolver is in
\* flight while the cache holds the collection unexpired.
C20_ResolverUsesCache ==
    \A r \in Reqs :
        pc[r] = "GetCollection351" =>
            ~Hit(caches.collectionCache, CollKey(inp[r].collection), now)

\* the calls of action() after checkAccess: lines 295, 334, 351, 363, 398
ContentEvents == {"GetItemMetadata:295", "GetCache:334", "GetCollection:351",
                  "Action:363", "FileFromFS:398"}

\* the positions of action() at which one of those calls is in flight
ContentCalls == {"GetItemMetadata295", "GetCache334", "GetCollection351", "Action363"}

\* the request has invoked one of the calls
ContentWork(r) == \E e \in ContentEvents : Has(r, e)

\* C21: none of GetItemMetadata, GetCache, the resolver's GetCollection,
\* Action and the file stream is invoked in a request before checkAccess
\* has returned nil for it; a request checkAccess refused ends with status
\* 401 and has invoked none of them.
C21_AuthorizationFirst ==
    \A r \in Reqs :
        /\ pc[r] \in ContentCalls => Has(r, "allow")
        /\ \A e \in ContentEvents : Follows(r, e, "allow")
        /\ ~(Has(r, "allow") /\ Has(r, "deny"))
        /\ Has(r, "deny") =>
              /\ pc[r] = "done"
              /\ resp[r].status = 401
              /\ ~ContentWork(r)

\* a request for a non-public item was refused by checkAccess after the
\* collection was fetched and the token tested
C21_Witness ==
    \E r \in Reqs :
        /\ pc[r] = "done"
        /\ Has(r, "deny")
        /\ Has(r, "getCollection:232")
        /\ inp[r].token # NoToken
        /\ resp[r].status = 401
        /\ ~ContentWork(r)

\* checkAccess of the request has got its item (line 208 returned no error)
AccessItemLoaded(r) == loc[r].accessItem # NilItem

\* C22 as claimed: the item checkAccess evaluates (line 208) is the item
\* action() loaded at line 274, and the item sent to Action (line 364) is
\* that item, whatever other requests, expiry and eviction do between the
\* two getItem calls.
C22_OneItemSnapshot ==
    \A r \in Reqs :
        /\ AccessItemLoaded(r) => loc[r].accessItem = loc[r].item
        /\ pc[r] = "Action363" => loc[r].actionParam.Item = loc[r].accessItem

=============================================================================
